---- MODULE Spec2Model ----
(***************************************************************************)
(* Model of main.py: the log extractor process_file (with its helpers      *)
(* convert_to_datetime and parse_weight_entry), followed by the trend      *)
(* reporter plot_weight_data, as run by main.                              *)
(*                                                                         *)
(* Text is modelled as TLA+ strings and parsed character by character, as  *)
(* datetime.strptime and the two regular expressions do.  A datetime is a   *)
(* record [year, month, day, hour, minute] (seconds are never set by the    *)
(* program and stay zero).  A float parsed from a decimal literal is the    *)
(* exact decimal [m, e] meaning m / 10^e with trailing zeros removed, so    *)
(* that "70.5" and "070.50" are the same value and "70.5" and "71.0" are    *)
(* not.  A dict is a function whose DOMAIN is its key set.                  *)
(***************************************************************************)
EXTENDS Integers, Sequences, FiniteSets, TLC

(***************************************************************************)
(* Characters                                                              *)
(***************************************************************************)
UpperAlpha == "ABCDEFGHIJKLMNOPQRSTUVWXYZ"

LowerAlpha == "abcdefghijklmnopqrstuvwxyz"

CharAt(s, i) == IF i \in 1..Len(s) THEN SubSeq(s, i, i) ELSE ""

Digits == {"0", "1", "2", "3", "4", "5", "6", "7", "8", "9"}

IsDigit(c) == c \in Digits

DigitVal(c) ==
    CASE c = "0" -> 0 [] c = "1" -> 1 [] c = "2" -> 2 [] c = "3" -> 3
      [] c = "4" -> 4 [] c = "5" -> 5 [] c = "6" -> 6 [] c = "7" -> 7
      [] c = "8" -> 8 [] c = "9" -> 9

UpperSet == {CharAt(UpperAlpha, i) : i \in 1..26}

LowerSet == {CharAt(LowerAlpha, i) : i \in 1..26}

LowerOf == [c \in UpperSet |->
               CharAt(LowerAlpha, CHOOSE i \in 1..26 : CharAt(UpperAlpha, i) = c)]

IsUpper(c) == c \in UpperSet

IsLower(c) == c \in LowerSet

\* \w of the re module: letters, digits and the underscore
IsWordChar(c) == IsDigit(c) \/ IsUpper(c) \/ IsLower(c) \/ c = "_"

\* \s of the re module (the blanks that occur in a line without its "\n")
WhiteSpace == {" ", "\t"}

\* [\d.] of the weight pattern
IsNumChar(c) == IsDigit(c) \/ c = "."

ToLower(c) == IF IsUpper(c) THEN LowerOf[c] ELSE c

SetMin(S) == CHOOSE x \in S : \A y \in S : x <= y

\* int() of a string of decimal digits
RECURSIVE int(_)
int(s) ==
    IF Len(s) = 0 THEN 0
    ELSE 10 * int(SubSeq(s, 1, Len(s) - 1)) + DigitVal(CharAt(s, Len(s)))

\* position of the first character at or after i that is not whitespace
SkipSpace(text, i) ==
    CHOOSE j \in i..(Len(text) + 1) :
        /\ \A k \in i..(j - 1) : CharAt(text, k) \in WhiteSpace
        /\ CharAt(text, j) \notin WhiteSpace

None == [none |-> TRUE]

(***************************************************************************)
(* datetime                                                                *)
(***************************************************************************)
datetime_min == [year |-> 1, month |-> 1, day |-> 1, hour |-> 0, minute |-> 0]

IsLeap(y) == (y % 4 = 0) /\ ((y % 100 # 0) \/ (y % 400 = 0))

DaysInMonth(y, m) ==
    IF m = 2 THEN (IF IsLeap(y) THEN 29 ELSE 28)
    ELSE IF m \in {4, 6, 9, 11} THEN 30 ELSE 31

Weekdays == <<"mon", "tue", "wed", "thu", "fri", "sat", "sun">>

Months == <<"jan", "feb", "mar", "apr", "may", "jun",
            "jul", "aug", "sep", "oct", "nov", "dec">>

\* a three-letter name at position i, compared without regard to case
NameAt(text, i, name) ==
    /\ i + 2 <= Len(text)
    /\ \A k \in 0..2 : ToLower(CharAt(text, i + k)) = CharAt(name, k + 1)

MonthAt(text, i) ==
    IF \E m \in 1..12 : NameAt(text, i, Months[m])
    THEN CHOOSE m \in 1..12 : NameAt(text, i, Months[m])
    ELSE 0

\* %d : 3[0-1] | [1-2]\d | 0[1-9] | [1-9], here followed by the "," of the format
TwoDigitDay(text, p) ==
    LET a == CharAt(text, p)
        b == CharAt(text, p + 1)
    IN  /\ IsDigit(a) /\ IsDigit(b)
        /\ \/ a = "3" /\ b \in {"0", "1"}
           \/ a \in {"1", "2"}
           \/ a = "0" /\ b # "0"
        /\ CharAt(text, p + 2) = ","

OneDigitDay(text, p) ==
    /\ IsDigit(CharAt(text, p)) /\ CharAt(text, p) # "0"
    /\ CharAt(text, p + 1) = ","

\* datetime.strptime(date_text, "%a, %b %d, %Y"): the datetime, or
\* exc = "ValueError" when the text does not match the format entirely or
\* names a date that does not exist
strptime(date_text) ==
    LET n    == Len(date_text)
        p1   == SkipSpace(date_text, 5)
        mon  == MonthAt(date_text, p1)
        p2   == SkipSpace(date_text, p1 + 3)
        two  == TwoDigitDay(date_text, p2)
        one  == OneDigitDay(date_text, p2)
        dlen == IF two THEN 2 ELSE 1
        dd   == int(SubSeq(date_text, p2, p2 + dlen - 1))
        p3   == p2 + dlen + 1
        p4   == SkipSpace(date_text, p3)
        yy   == int(SubSeq(date_text, p4, p4 + 3))
        matches ==
            /\ \E w \in 1..7 : NameAt(date_text, 1, Weekdays[w])
            /\ CharAt(date_text, 4) = ","
            /\ p1 > 5
            /\ mon # 0
            /\ p2 > p1 + 3
            /\ two \/ one
            /\ p4 > p3
            /\ p4 + 3 = n
            /\ \A k \in p4..(p4 + 3) : IsDigit(CharAt(date_text, k))
    IN  IF matches /\ yy >= 1 /\ dd <= DaysInMonth(yy, mon)
        THEN [exc |-> "none",
              value |-> [year |-> yy, month |-> mon, day |-> dd,
                         hour |-> 0, minute |-> 0]]
        ELSE [exc |-> "ValueError", value |-> None]

\* convert_to_datetime: (True, datetime) or (False, None)
convert_to_datetime(date_text) ==
    LET r == strptime(date_text)
    IN  IF r.exc = "none"
        THEN [result |-> TRUE, value |-> r.value]
        ELSE [result |-> FALSE, value |-> None]

(***************************************************************************)
(* parse_weight_entry                                                      *)
(***************************************************************************)
\* "Weight" in text
ContainsWeight(text) ==
    \E i \in 1..Len(text) : i + 5 <= Len(text) /\ SubSeq(text, i, i + 5) = "Weight"

\* \b\d{2}:\d{2}\b matches at position i
TimeMatchAt(text, i) ==
    /\ i + 4 <= Len(text)
    /\ IsDigit(CharAt(text, i)) /\ IsDigit(CharAt(text, i + 1))
    /\ CharAt(text, i + 2) = ":"
    /\ IsDigit(CharAt(text, i + 3)) /\ IsDigit(CharAt(text, i + 4))
    /\ ~IsWordChar(CharAt(text, i - 1))
    /\ ~IsWordChar(CharAt(text, i + 5))

\* re.search(r'\b\d{2}:\d{2}\b', text): start of the leftmost match, 0 for None
time_search(text) ==
    LET S == {i \in 1..Len(text) : TimeMatchAt(text, i)}
    IN  IF S = {} THEN 0 ELSE SetMin(S)

\* last position of the longest run of [\d.] that starts at i (i - 1: no run)
NumRunEnd(text, i) ==
    CHOOSE j \in (i - 1)..Len(text) :
        /\ \A k \in i..j : IsNumChar(CharAt(text, k))
        /\ ~IsNumChar(CharAt(text, j + 1))

\* Weight\s([\d.]+)kg matches at position i; "k" is not in [\d.], so the
\* greedy group is the longest run and backtracking cannot shorten it
WeightMatchAt(text, i) ==
    /\ i + 5 <= Len(text)
    /\ SubSeq(text, i, i + 5) = "Weight"
    /\ CharAt(text, i + 6) \in WhiteSpace
    /\ LET e == NumRunEnd(text, i + 7)
       IN  /\ e >= i + 7
           /\ CharAt(text, e + 1) = "k"
           /\ CharAt(text, e + 2) = "g"

\* re.search(r'Weight\s([\d.]+)kg', text): start of the leftmost match, 0 for None
weight_search(text) ==
    LET S == {i \in 1..Len(text) : WeightMatchAt(text, i)}
    IN  IF S = {} THEN 0 ELSE SetMin(S)

\* group(1) of the weight match that starts at i
weight_group(text, i) == SubSeq(text, i + 7, NumRunEnd(text, i + 7))

DotsIn(s) == Cardinality({i \in 1..Len(s) : CharAt(s, i) = "."})

RECURSIVE Normalise(_, _)
Normalise(m, e) ==
    IF e > 0 /\ m % 10 = 0 THEN Normalise(m \div 10, e - 1)
    ELSE [m |-> m, e |-> e]

\* float() of a string over [\d.]: ValueError unless it has at most one dot
\* and at least one digit
float(s) ==
    LET dots == DotsIn(s)
        dot  == IF dots = 0 THEN Len(s) + 1
                ELSE CHOOSE i \in 1..Len(s) : CharAt(s, i) = "."
        ip   == SubSeq(s, 1, dot - 1)
        fp   == SubSeq(s, dot + 1, Len(s))
    IN  IF dots > 1 \/ Len(s) - dots = 0
        THEN [exc |-> "ValueError", value |-> None]
        ELSE [exc |-> "none", value |-> Normalise(int(ip \o fp), Len(fp))]

\* parse_weight_entry: (True, (time, weight)), (False, None), or the
\* ValueError that float() raises, which the function does not catch
parse_weight_entry(text) ==
    LET t == time_search(text)
        w == weight_search(text)
    IN  IF ContainsWeight(text) /\ t # 0 /\ w # 0
        THEN LET f == float(weight_group(text, w))
             IN  IF f.exc = "none"
                 THEN [exc |-> "none", result |-> TRUE,
                       value |-> [time |-> SubSeq(text, t, t + 4), weight |-> f.value]]
                 ELSE [exc |-> f.exc, result |-> FALSE, value |-> None]
        ELSE [exc |-> "none", result |-> FALSE, value |-> None]

\* datetime.replace(hour=, minute=): ValueError when a field is out of range
replace(dt, hours, minutes) ==
    IF hours \in 0..23 /\ minutes \in 0..59
    THEN [exc |-> "none", value |-> [dt EXCEPT !.hour = hours, !.minute = minutes]]
    ELSE [exc |-> "ValueError", value |-> None]

(***************************************************************************)
(* process_file: the body of the loop                                      *)
(***************************************************************************)
\* line_text.replace('\n', ''): every "\n" is removed
RECURSIVE strip_newline(_)
strip_newline(s) ==
    IF Len(s) = 0 THEN ""
    ELSE IF CharAt(s, 1) = "\n" THEN strip_newline(Tail(s))
    ELSE CharAt(s, 1) \o strip_newline(Tail(s))

\* fault: current_date kept from an earlier call (a module-level variable
\* initialised once) instead of being reset when the file is opened
stale_current_date(old) == IF old = None THEN datetime_min ELSE old

\* current_date = datetime.min when the file has been opened; old is what
\* the name was bound to before, which the assignment discards
fresh_current_date(old) == datetime_min

\* fault: a header is taken only while no date has been set yet
update_current_date_once(cur, line_text) ==
    LET r == convert_to_datetime(line_text)
    IN  IF r.result /\ cur.year = 1 /\ cur.month = 1 /\ cur.day = 1
        THEN r.value ELSE cur

\* result, value = convert_to_datetime(line_text); if result: current_date = value
update_current_date(cur, line_text) ==
    LET r == convert_to_datetime(line_text)
    IN  IF r.result THEN r.value ELSE cur

\* fault: weight_data.setdefault(key, weight), the first write wins
store_if_absent(wd, key, weight) ==
    [k \in (DOMAIN wd) \cup {key} |-> IF k \in DOMAIN wd THEN wd[k] ELSE weight]

\* weight_data[key] = weight
store(wd, key, weight) ==
    [k \in (DOMAIN wd) \cup {key} |-> IF k = key THEN weight ELSE wd[k]]

\* fault: the timestamp is built from datetime.min instead of current_date
record_weight_from_min(cur, wd, value) ==
    LET hours   == int(SubSeq(value.time, 1, 2))
        minutes == int(SubSeq(value.time, 4, 5))
        r       == replace(datetime_min, hours, minutes)
    IN  IF r.exc = "none"
        THEN [exc |-> "none", current_date |-> r.value,
              weight_data |-> store(wd, r.value, value.weight)]
        ELSE [exc |-> r.exc, current_date |-> cur, weight_data |-> wd]

\* the branch taken for a weight entry: split the time, replace hour and
\* minute of current_date, store the weight under the new current_date
record_weight(cur, wd, value) ==
    LET hours   == int(SubSeq(value.time, 1, 2))
        minutes == int(SubSeq(value.time, 4, 5))
        r       == replace(cur, hours, minutes)
    IN  IF r.exc = "none"
        THEN [exc |-> "none", current_date |-> r.value,
              weight_data |-> store(wd, r.value, value.weight)]
        ELSE [exc |-> r.exc, current_date |-> cur, weight_data |-> wd]

\* one iteration of the loop over the lines of the file
loop_body(cur, wd, raw_line) ==
    LET line_text == strip_newline(raw_line)
        date      == update_current_date(cur, line_text)
        p         == parse_weight_entry(line_text)
    IN  IF p.exc # "none"
        THEN [exc |-> p.exc, current_date |-> date, weight_data |-> wd]
        ELSE IF p.result
        THEN record_weight(date, wd, p.value)
        ELSE [exc |-> "none", current_date |-> date, weight_data |-> wd]

\* fault: file.close() after the loop instead of a with block, so that an
\* exception of the loop body leaves the file open
close_after_loop(handles, exc) == IF exc = "ValueError" THEN handles ELSE handles - 1

\* leaving the with block, normally or by an exception, closes the file
with_exit(handles, exc) == handles - 1

file_name == "log/[PiyoLog]Nov.txt"

\* fault: the texts of the two except clauses exchanged
not_found_message_exchanged == "Error: Could not read the file '" \o file_name \o "'."

not_found_message == "Error: The file '" \o file_name \o "' was not found."

could_not_read_message == "Error: Could not read the file '" \o file_name \o "'."

(***************************************************************************)
(* plot_weight_data                                                        *)
(***************************************************************************)
\* dt.timestamp() of a naive datetime on the first day of year 1 raises
\* ValueError (the local-time conversion looks one day back, into year 0)
timestamp_raises(dt) == dt.year = 1 /\ dt.month = 1 /\ dt.day = 1

\* The reporter either writes the image or raises: timestamp() raises for
\* a key on the minimal date, and LinearRegression.fit raises ValueError
\* for an array with no samples.
plot_weight_data(wd) ==
    IF \E dt \in DOMAIN wd : timestamp_raises(dt) THEN "ValueError"
    ELSE IF DOMAIN wd = {} THEN "ValueError"
    ELSE "none"

(***************************************************************************)
(* State                                                                   *)
(***************************************************************************)
\* most lines one file holds
MaxLines == 3

\* the lines a file is made of (each is followed by "\n" in the file)
Corpus ==
    { "Wed, Nov 06, 2024",
      "thu,  nov 7, 2024",
      "06:00 Weight 70.5kg",
      "06:00 Weight 71.0kg",
      "Note 18:30 Weight\t070.50kg ok",
      "Fri, Feb 30, 2024",
      "Wed, Nov 06",
      "06:00 Weight 70.5",
      "Weight 70.5kg",
      "06:00 Weight 1.2.3kg",
      "25:00 Weight 70.5kg" }

VARIABLES
    pc,            \* "main": about to call process_file; "reading": inside the
                   \* with block; "returned" / "raised": process_file has
                   \* returned to / raised into its caller; "exited"
    call,          \* 1 or 2: which call of process_file this is
    file,          \* the lines of the file that the first call has read
    fate,          \* how reading the file ends: "unknown", "missing",
                   \* "unreadable", "ioerror", "eof" or "valueerror"
    pos,           \* number of lines the current call has taken from the file
    current_date,  \* local of process_file (None while unbound)
    weight_data,   \* local of process_file
    open_handles,  \* number of file objects that are open
    stdout,        \* the lines printed so far
    hist,          \* hist[i]: current_date and weight_data after the i-th
                   \* line of the current call was processed without error
    result,        \* what process_file returned (None: nothing yet)
    first,         \* outcome of the first call, kept by a caller that calls twice
    exit_status    \* -1 while the process runs, then 0 or 1

vars == <<pc, call, file, fate, pos, current_date, weight_data, open_handles,
          stdout, hist, result, first, exit_status>>

Init ==
    /\ pc = "main"
    /\ call = 1
    /\ file = <<>>
    /\ fate = "unknown"
    /\ pos = 0
    /\ current_date = None
    /\ weight_data = <<>>
    /\ open_handles = 0
    /\ stdout = <<>>
    /\ hist = <<>>
    /\ result = None
    /\ first = None
    /\ exit_status = -1

\* the second call finds the file as the first call found it
Replays(f) == IF call = 1 THEN fate = "unknown" ELSE fate = f

(***************************************************************************)
(* process_file                                                           *)
(***************************************************************************)
\* open() raises FileNotFoundError: caught, reported, {} returned
OpenNotFound ==
    /\ pc = "main"
    /\ Replays("missing")
    /\ fate' = "missing"
    /\ weight_data' = <<>>
    /\ stdout' = Append(stdout, not_found_message)
    /\ result' = weight_data'
    /\ pc' = "returned"
    /\ UNCHANGED <<call, file, pos, current_date, open_handles, hist, first,
                   exit_status>>

\* open() raises another OSError (permission, directory, ...): caught by
\* except IOError, reported, {} returned
OpenError ==
    /\ pc = "main"
    /\ Replays("unreadable")
    /\ fate' = "unreadable"
    /\ weight_data' = <<>>
    /\ stdout' = Append(stdout, could_not_read_message)
    /\ result' = weight_data'
    /\ pc' = "returned"
    /\ UNCHANGED <<call, file, pos, current_date, open_handles, hist, first,
                   exit_status>>

\* open() succeeds: weight_data = {}, the with block is entered,
\* current_date = datetime.min
Open ==
    /\ pc = "main"
    /\ IF call = 1 THEN fate = "unknown"
                   ELSE fate \in {"eof", "ioerror", "valueerror"}
    /\ weight_data' = <<>>
    /\ open_handles' = open_handles + 1
    /\ current_date' = fresh_current_date(current_date)
    /\ hist' = <<>>
    /\ pos' = 0
    /\ pc' = "reading"
    /\ UNCHANGED <<call, file, fate, stdout, result, first, exit_status>>

\* the iterator yields a line and the loop body runs on it; an exception of
\* the body leaves the with block (closing the file) and, being neither
\* FileNotFoundError nor IOError, leaves process_file
ReadLine ==
    /\ pc = "reading"
    /\ \E raw \in IF call = 1
                  THEN IF Len(file) < MaxLines
                       THEN {l \o "\n" : l \in Corpus} ELSE {}
                  ELSE IF pos < Len(file) THEN {file[pos + 1]} ELSE {} :
         LET b == loop_body(current_date, weight_data, raw)
         IN  /\ file' = IF call = 1 THEN Append(file, raw) ELSE file
             /\ pos' = pos + 1
             /\ current_date' = b.current_date
             /\ weight_data' = b.weight_data
             /\ IF b.exc = "none"
                THEN /\ hist' = Append(hist, [current_date |-> b.current_date,
                                              weight_data |-> b.weight_data])
                     /\ UNCHANGED <<pc, fate, open_handles>>
                ELSE /\ open_handles' = with_exit(open_handles, b.exc)
                     /\ pc' = "raised"
                     /\ fate' = "valueerror"
                     /\ UNCHANGED hist
    /\ UNCHANGED <<call, stdout, result, first, exit_status>>

\* the iterator raises an OSError while reading: the with block is left
\* (closing the file), except IOError reports it, weight_data is returned
ReadError ==
    /\ pc = "reading"
    /\ IF call = 1 THEN fate = "unknown" ELSE fate = "ioerror" /\ pos = Len(file)
    /\ fate' = "ioerror"
    /\ open_handles' = with_exit(open_handles, "OSError")
    /\ stdout' = Append(stdout, could_not_read_message)
    /\ result' = weight_data
    /\ pc' = "returned"
    /\ UNCHANGED <<call, file, pos, current_date, weight_data, hist, first,
                   exit_status>>

\* the iterator is exhausted: the with block is left, weight_data is returned
EndOfFile ==
    /\ pc = "reading"
    /\ IF call = 1 THEN fate = "unknown" ELSE fate = "eof" /\ pos = Len(file)
    /\ fate' = "eof"
    /\ open_handles' = with_exit(open_handles, "none")
    /\ result' = weight_data
    /\ pc' = "returned"
    /\ UNCHANGED <<call, file, pos, current_date, weight_data, stdout, hist,
                   first, exit_status>>

process_file == OpenNotFound \/ OpenError \/ Open \/ ReadLine \/ ReadError \/ EndOfFile

(***************************************************************************)
(* main                                                                    *)
(***************************************************************************)
\* plot_weight_data(weight_data); main catches nothing, so an exception
\* ends the process with status 1
Plot ==
    /\ pc = "returned"
    /\ exit_status' = IF plot_weight_data(result) = "none" THEN 0 ELSE 1
    /\ pc' = "exited"
    /\ UNCHANGED <<call, file, fate, pos, current_date, weight_data,
                   open_handles, stdout, hist, result, first>>

\* an exception that left process_file is not caught by main either
Uncaught ==
    /\ pc = "raised"
    /\ exit_status' = 1
    /\ pc' = "exited"
    /\ UNCHANGED <<call, file, fate, pos, current_date, weight_data,
                   open_handles, stdout, hist, result, first>>

Next == process_file \/ Plot \/ Uncaught

Spec == Init /\ [][Next]_vars

(***************************************************************************)
(* A caller that calls process_file twice on the same file                 *)
(***************************************************************************)
\* the caller keeps what the first call returned and printed, and calls
\* again; the locals of the first call are left as that call left them
SecondCall ==
    /\ pc \in {"returned", "raised"}
    /\ call = 1
    /\ first' = [pc |-> pc, result |-> result, stdout |-> stdout]
    /\ call' = 2
    /\ result' = None
    /\ stdout' = <<>>
    /\ pc' = "main"
    /\ UNCHANGED <<file, fate, pos, current_date, weight_data, open_handles,
                   hist, exit_status>>

NextTwice == process_file \/ SecondCall

SpecTwice == Init /\ [][NextTwice]_vars

(***************************************************************************)
(* Vocabulary of the properties: what a file says, read independently of   *)
(* the state that process_file threads through its loop                    *)
(***************************************************************************)
SetMax(S) == CHOOSE x \in S : \A y \in S : y <= x

\* what each line of the corpus says, tabulated once
Classified ==
    [raw \in {l \o "\n" : l \in Corpus} |->
        LET t == strip_newline(raw)
            w == weight_search(t)
        IN  [text     |-> t,
             header   |-> convert_to_datetime(t),
             contains |-> ContainsWeight(t),
             time     |-> time_search(t),
             weight   |-> w,
             number   |-> IF w # 0 THEN float(weight_group(t, w)) ELSE None]]

Text(i) == Classified[file[i]].text

IsHeader(i) == Classified[file[i]].header.result

HeaderDate(i) == Classified[file[i]].header.value

DateOf(dt) == <<dt.year, dt.month, dt.day>>

\* the headers among the first i lines
HeadersUpTo(i) == {j \in 1..i : IsHeader(j)}

\* calendar date in force for line i: that of the last header before it
ExpectedDate(i) ==
    IF HeadersUpTo(i - 1) = {} THEN <<1, 1, 1>>
    ELSE DateOf(HeaderDate(SetMax(HeadersUpTo(i - 1))))

\* re.search for the time pattern finds a match in line i
HasTime(i) == Classified[file[i]].time # 0

\* re.search for the weight pattern finds a match in line i
HasWeight(i) == Classified[file[i]].weight # 0

\* the line contains "Weight" and both patterns are found in it
BothTokens(i) == Classified[file[i]].contains /\ HasTime(i) /\ HasWeight(i)

LineHour(i) == int(SubSeq(Text(i), Classified[file[i]].time, Classified[file[i]].time + 1))

LineMinute(i) == int(SubSeq(Text(i), Classified[file[i]].time + 3, Classified[file[i]].time + 4))

LineWeight(i) == Classified[file[i]].number.value

\* the full timestamp line i resolves to
ResolvedKey(i) ==
    [year |-> ExpectedDate(i)[1], month |-> ExpectedDate(i)[2],
     day |-> ExpectedDate(i)[3], hour |-> LineHour(i), minute |-> LineMinute(i)]

\* state of the loop before line i
Before(i) ==
    IF i = 1 THEN [current_date |-> datetime_min, weight_data |-> <<>>]
    ELSE hist[i - 1]

\* the keys whose entry the processing of line i created or changed
Touched(i) ==
    {k \in DOMAIN hist[i].weight_data :
        \/ k \notin DOMAIN Before(i).weight_data
        \/ hist[i].weight_data[k] # Before(i).weight_data[k]}

\* the weight lines among the first n lines that resolve to key k
LinesFor(k, n) == {j \in 1..n : BothTokens(j) /\ ResolvedKey(j) = k}

\* C1: every observation recorded for a weight line carries the calendar
\* date of the most recent date header strictly before that line, and the
\* minimal date 0001-01-01 when no header precedes it.
ObservationDateIsLastHeader ==
    \A i \in 1..Len(hist) :
        BothTokens(i) =>
            /\ \E k \in DOMAIN hist[i].weight_data :
                  /\ DateOf(k) = ExpectedDate(i)
                  /\ k.hour = LineHour(i) /\ k.minute = LineMinute(i)
                  /\ hist[i].weight_data[k] = LineWeight(i)
            /\ \A k \in Touched(i) : DateOf(k) = ExpectedDate(i)

\* a weight line recorded under the second of two different headers, after
\* an earlier weight line recorded under the minimal date
WitnessC1 ==
    /\ Len(hist) = 3
    /\ IsHeader(1) /\ IsHeader(2) /\ HeaderDate(1) # HeaderDate(2)
    /\ BothTokens(3)
    /\ hist[3].current_date.day = HeaderDate(2).day

\* C2 (as claimed): every line with "Weight", a dd:dd time and a
\* "Weight <[\d.]+>kg" token records exactly one observation, at the current
\* date combined with its own HH:MM, holding the parsed weight; a line
\* missing either token records none.
EveryWeightLineRecorded ==
    \A i \in 1..pos :
        IF BothTokens(i)
        THEN /\ i <= Len(hist)
             /\ hist[i].weight_data =
                    store(Before(i).weight_data,
                          [Before(i).current_date EXCEPT
                              !.hour = LineHour(i), !.minute = LineMinute(i)],
                          LineWeight(i))
        ELSE i <= Len(hist) => hist[i].weight_data = Before(i).weight_data

\* C3: the returned mapping holds, for each timestamp some weight line
\* resolves to, exactly the weight of the last such line, and nothing else.
LastWriteWins ==
    (pc = "returned" /\ fate \in {"eof", "ioerror"}) =>
        /\ DOMAIN result = {ResolvedKey(i) : i \in {j \in 1..Len(hist) : BothTokens(j)}}
        /\ \A k \in DOMAIN result :
              result[k] = LineWeight(SetMax(LinesFor(k, Len(hist))))

\* two lines with different weights for one timestamp, a third line for
\* another timestamp, and the mapping returned
WitnessC3 ==
    /\ pc = "returned"
    /\ Len(hist) = 3
    /\ \E i, j, o \in 1..3 :
          /\ i < j
          /\ BothTokens(i) /\ BothTokens(j) /\ BothTokens(o)
          /\ ResolvedKey(i) = ResolvedKey(j)
          /\ LineWeight(i) # LineWeight(j)
          /\ ResolvedKey(o) # ResolvedKey(i)
          /\ result[ResolvedKey(j)] = LineWeight(j)

\* C4: for a missing file process_file prints the file-not-found diagnostic,
\* returns an empty mapping, and raises nothing into its caller.
MissingFileHandled ==
    (fate = "missing" /\ pc # "main") =>
        /\ pc \in {"returned", "exited"}
        /\ result = <<>>
        /\ stdout = <<"Error: The file 'log/[PiyoLog]Nov.txt' was not found.">>

WitnessC4 == fate = "missing" /\ pc = "returned" /\ Len(stdout) = 1

\* C5 (as claimed): when the file cannot be read, wherever the failure
\* occurs, the could-not-read diagnostic is printed and the mapping
\* returned is empty.
ReadFailureReturnsEmpty ==
    (fate \in {"unreadable", "ioerror"} /\ pc = "returned") =>
        /\ stdout = <<"Error: Could not read the file 'log/[PiyoLog]Nov.txt'.">>
        /\ result = <<>>

\* C6: a second call on the same file ends as the first did and returns an
\* identical mapping.
SecondCallSameResult ==
    (call = 2 /\ pc \in {"returned", "raised"}) =>
        /\ first.pc = pc
        /\ first.result = result
        /\ first.stdout = stdout

\* the second call has returned a mapping built from a weight line under the
\* minimal date followed by a header and a weight line under that header
WitnessC6 ==
    /\ call = 2 /\ pc = "returned"
    /\ Len(hist) = 3
    /\ BothTokens(1) /\ IsHeader(2) /\ BothTokens(3)
    /\ Cardinality(DOMAIN result) = 2

\* C7 (as claimed): after a header, current_date is that date at midnight
\* and keeps this value across every later non-header line, weight lines
\* included, until the next header.
CurrentDateStaysMidnight ==
    \A i \in 1..Len(hist) :
        HeadersUpTo(i) # {} =>
            hist[i].current_date = HeaderDate(SetMax(HeadersUpTo(i)))

\* the weight lines recorded after header h, up to line i
WeightLinesIn(h, i) == {j \in (h + 1)..i : BothTokens(j)}

\* C7 (amended): after a header, current_date has that calendar date until
\* the next header; its time of day is midnight until a weight line is
\* recorded and from then on the HH:MM of the last weight line recorded.
CurrentDateKeepsCalendarDate ==
    \A i \in 1..Len(hist) :
        HeadersUpTo(i) # {} =>
            LET h == SetMax(HeadersUpTo(i))
                W == WeightLinesIn(h, i)
            IN  hist[i].current_date =
                    IF W = {} THEN HeaderDate(h)
                    ELSE [HeaderDate(h) EXCEPT !.hour = LineHour(SetMax(W)),
                                               !.minute = LineMinute(SetMax(W))]

\* a header, then a weight line, then a line that is neither
WitnessC7 ==
    /\ Len(hist) = 3
    /\ IsHeader(1) /\ BothTokens(2) /\ ~IsHeader(3) /\ ~BothTokens(3)
    /\ DateOf(hist[3].current_date) = DateOf(HeaderDate(1))
    /\ hist[3].current_date.hour = LineHour(2)

\* C8 (as claimed): a run whose input file cannot be opened or read
\* continues with the empty mapping and ends with exit status 0.
UnreadableRunExitsZero ==
    (pc = "exited" /\ fate \in {"missing", "unreadable", "ioerror"}) =>
        exit_status = 0

\* a "Weight <number>kg" token whose number float() accepts
HasParseableWeight(i) == HasWeight(i) /\ Classified[file[i]].number.exc = "none"

\* neither a complete valid header nor a line with both valid tokens
Ignorable(i) == ~IsHeader(i) /\ ~(HasTime(i) /\ HasParseableWeight(i))

\* C9 (as claimed): a line that is neither a valid header nor a line with
\* both valid tokens raises no error and leaves the mapping and
\* current_date as they were.
IgnorableLineIsIgnored ==
    \A i \in 1..pos :
        Ignorable(i) => (i <= Len(hist) /\ hist[i] = Before(i))

\* C10: at most one file is ever open, one is open exactly while the lines
\* are read, and none is open once process_file has returned or raised.
HandleClosedOnEveryExit ==
    /\ open_handles <= 1
    /\ pc = "reading" => open_handles = 1
    /\ pc \in {"main", "returned", "raised", "exited"} => open_handles = 0

\* an error raised by the second line has left process_file, file closed
WitnessC10 == pc = "raised" /\ pos = 2 /\ Len(hist) = 1 /\ open_handles = 0

====
